---- MODULE Spec2Model ----
(***************************************************************************)
(* Template registry / resolution engine of the project generator          *)
(* (src/src/template_registry.rs): TemplateManager with its registry       *)
(* configuration, its in-memory cache, list_templates and get_template     *)
(* ("resolve").  The four source adapters are unimplemented in the         *)
(* repository (todo!()); what an adapter returns is an input of each       *)
(* operation, drawn from the outcomes the specification gives them.        *)
(* Time is counted in ticks of 1/TicksPerSec second.                       *)
(***************************************************************************)
EXTENDS Integers, Sequences, FiniteSets, TLC

VARIABLES config, cache, now, ret, calls, puts, fs

vars == <<config, cache, now, ret, calls, puts, fs>>

(* ------------------------------- time --------------------------------- *)

\* SystemTime has sub-second resolution: the clock counts half seconds
TicksPerSec == 2

(* ------------------------------ bounds -------------------------------- *)

\* config.cache_ttl, in seconds
CacheTtl == 0

\* priorities range over 0..MaxPriority
MaxPriority == 1

\* the clock runs until an entry cached at 0 has expired
MaxTime == (CacheTtl + 1) * TicksPerSec

(* --------------------------- data model ------------------------------- *)

\* Result<T>: Ok(v) / Err(GeneratorError)
Ok(v) == [ok |-> TRUE, val |-> v]

Err(kind, ctx) == [ok |-> FALSE, kind |-> kind, ctx |-> ctx]

\* the orderings of a finite set: its elements in a row, each once
Orderings(S) ==
    { o \in [1..Cardinality(S) -> S] : \A i, j \in 1..Cardinality(S) : o[i] = o[j] => i = j }

\* Option<T>
None == [some |-> FALSE]

Some(v) == [some |-> TRUE, v |-> v]

\* TemplateSource: the tag of the variant
SourceKinds == {"Local", "Git", "Http", "Npm"}

\* the named sources a configuration can bind
RegistryNames == {"local", "remote"}

SourceOf(name) == IF name = "local" THEN "Local" ELSE "Http"

\* TemplateRegistry
TemplateRegistry ==
    { [name |-> n, source |-> SourceOf(n), enabled |-> e, priority |-> p] :
        n \in RegistryNames, e \in BOOLEAN, p \in 0..MaxPriority }

\* the longest list of registries: as many entries as there are names
MaxRegistries == Cardinality(RegistryNames)

\* the registry lists (Vec<TemplateRegistry>): every sequence of entries, a
\* name may be repeated
RegistryLists == UNION { [1..k -> TemplateRegistry] : k \in 0..MaxRegistries }

\* TemplateRegistryConfig
TemplateRegistryConfig ==
    { [registries |-> r, cache_dir |-> "./.template_cache", cache_ttl |-> CacheTtl] :
        r \in RegistryLists }

\* a default whose TTL is 3600 milliseconds taken as seconds times 1000
default_millis ==
    [registries |-> << [name |-> "local", source |-> "Local", path |-> "./templates",
                        enabled |-> TRUE, priority |-> 0] >>,
     cache_dir  |-> "./.template_cache",
     cache_ttl  |-> 3600000]

\* impl Default for TemplateRegistryConfig (the Local source with its path)
default ==
    [registries |-> << [name |-> "local", source |-> "Local", path |-> "./templates",
                        enabled |-> TRUE, priority |-> 0] >>,
     cache_dir  |-> "./.template_cache",
     cache_ttl  |-> 3600]

ProjectTypes == {"vue", "react"}

\* the (project_type, template_name) pairs that are requested
Requests == { <<"vue", "app">>, <<"react", "lib">> }

\* TemplateMetadata (the fields the manager reads or compares)
Metadata(n, t) == [name |-> n, project_type |-> t]

\* the directory a source materializes a requested template into (each source
\* has its own deterministic location)
PathOf(name) == IF name = "local" THEN "./templates/t" ELSE "./.template_cache/t"

\* the content of <path>/template.json when it is a well-formed descriptor
MetadataAt(p) ==
    IF p = PathOf("local") THEN Metadata("app", "vue") ELSE Metadata("lib", "react")

\* state of <path>/template.json
DescriptorStates == {"valid", "missing", "malformed"}

\* CachedTemplate
CachedTemplate(m, p, t) == [metadata |-> m, path |-> p, cached_at |-> t]

(* --------------------- adapters (inputs of a call) --------------------- *)

FetchErrors == {"SourceUnavailable", "IntegrityError"}

\* how a fetch_one ends: the template is materialized, or an error kind
FetchOutcomes == {"Ok"} \cup FetchErrors

\* load_template_from_registry: the adapter bound to the entry answers with
\* the directory of the template or with its error (answer: how this
\* invocation of the adapter ends)
load_template_from_registry(answer, registry, project_type, template_name) ==
    IF answer = "Ok"
    THEN Ok(PathOf(registry.name))
    ELSE Err(answer, registry.name)

(* ------------------------------ helpers ------------------------------- *)

\* format!("{}:{}", project_type, template_name)
cache_key(project_type, template_name) == project_type \o ":" \o template_name

\* requests whose strings contain the separator of the key
ColonRequests == { <<"vue:app", "v2">>, <<"vue", "app:v2">> }

Keys == { cache_key(r[1], r[2]) : r \in Requests \cup ColonRequests }

\* Duration::as_secs: whole seconds, the sub-second part dropped
as_secs(d) == d \div TicksPerSec

\* SystemTime::elapsed: Err when the clock is earlier than the instant
elapsed(at, clock) == IF clock >= at THEN Ok(clock - at) ELSE Err("SystemTimeError", "")

\* is_cache_expired with >= for >: an entry expires as soon as its age reaches the TTL
is_cache_expired_ge(cfg, cached, clock) ==
    LET e == elapsed(cached.cached_at, clock)
    IN  IF e.ok THEN as_secs(e.val) >= cfg.cache_ttl ELSE TRUE

\* is_cache_expired taking an entry whose age cannot be computed as fresh
is_cache_expired_fresh(cfg, cached, clock) ==
    LET e == elapsed(cached.cached_at, clock)
    IN  IF e.ok THEN as_secs(e.val) > cfg.cache_ttl ELSE FALSE

\* TemplateManager::is_cache_expired
is_cache_expired(cfg, cached, clock) ==
    LET e == elapsed(cached.cached_at, clock)
    IN  IF e.ok THEN as_secs(e.val) > cfg.cache_ttl ELSE TRUE

\* TemplateManager::load_template_metadata: read and parse <path>/template.json
\* (descriptor: the state of that file when it is read)
load_template_metadata(descriptor, template_path) ==
    CASE descriptor = "valid"     -> Ok(MetadataAt(template_path))
      [] descriptor = "missing"   -> Err("Io", "template.json")
      [] descriptor = "malformed" -> Err("Serialization", "template.json")

(* ------------------------------ resolve ------------------------------- *)

\* one adapter invocation, as the log shows it
Attempt(registry, outcome) ==
    [registry |-> registry.name, entry |-> registry, outcome |-> outcome]

\* an update that writes path and time into the entry the key already has
update_cache_merge(c, cache_key_, descriptor, template_path, clock) ==
    LET metadata == load_template_metadata(descriptor, template_path)
    IN  IF metadata.ok
        THEN IF c[cache_key_].some
             THEN [c EXCEPT ![cache_key_] =
                     [some |-> TRUE,
                      v |-> [metadata |-> c[cache_key_].v.metadata,
                             path |-> template_path, cached_at |-> clock]]]
             ELSE [c EXCEPT ![cache_key_] =
                     [some |-> TRUE,
                      v |-> [metadata |-> metadata.val,
                             path |-> template_path, cached_at |-> clock]]]
        ELSE c

\* the update of the cache after a successful fetch (get_template, "更新缓存")
update_cache(c, cache_key_, descriptor, template_path, clock) ==
    LET metadata == load_template_metadata(descriptor, template_path)
    IN  IF metadata.ok
        THEN [c EXCEPT ![cache_key_] = Some(CachedTemplate(metadata.val, template_path, clock))]
        ELSE c

\* a loop that gives up after its first entry
resolve_order_first(cfg) == SubSeq(cfg.registries, 1, 1)

\* the entries get_template iterates, in the order it iterates them
resolve_order(cfg) == cfg.registries

\* the enabled flag ignored
consulted_all(registry) == TRUE

\* whether the loops consult an entry
consulted(registry) == registry.enabled

\* the error get_template ends with when its loop finds nothing
not_found(project_type, template_name) ==
    Err("TemplateNotFound", project_type \o ":" \o template_name)

RECURSIVE load_from_registries_all(_, _, _, _, _, _, _, _, _)
\* a loop that fetches from every enabled entry and returns the first success
load_from_registries_all(regs, c, at, project_type, template_name, fetch, descriptor, i, lg) ==
    IF i > Len(regs)
    THEN LET won == { j \in DOMAIN lg : lg[j].outcome.ok }
         IN  IF won = {}
             THEN [result |-> not_found(project_type, template_name), cache |-> c, log |-> lg]
             ELSE LET first == lg[CHOOSE j \in won : \A l \in won : j <= l].outcome
                  IN  [result |-> first,
                       cache  |-> update_cache(c, cache_key(project_type, template_name),
                                               descriptor, first.val, at),
                       log    |-> lg]
    ELSE IF ~consulted(regs[i])
    THEN load_from_registries_all(regs, c, at, project_type, template_name,
                                  fetch, descriptor, i + 1, lg)
    ELSE load_from_registries_all(regs, c, at, project_type, template_name,
                                  fetch, descriptor, i + 1,
                                  Append(lg, Attempt(regs[i],
                                      load_template_from_registry(fetch[Len(lg) + 1], regs[i],
                                                                  project_type, template_name))))

RECURSIVE load_from_registries(_, _, _, _, _, _, _, _, _)
\* the for loop of get_template over entries i.. of regs; lg: attempts so
\* far; fetch[k]: how the k-th invocation of an adapter in this call ends;
\* at: what SystemTime::now() gives when the entry is built
load_from_registries(regs, c, at, project_type, template_name, fetch, descriptor, i, lg) ==
    IF i > Len(regs)
    THEN [result |-> not_found(project_type, template_name), cache |-> c, log |-> lg]
    ELSE IF ~consulted(regs[i])
    THEN load_from_registries(regs, c, at, project_type, template_name, fetch, descriptor, i + 1, lg)
    ELSE LET r   == load_template_from_registry(fetch[Len(lg) + 1], regs[i],
                                                project_type, template_name)
             lg2 == Append(lg, Attempt(regs[i], r))
         IN  IF r.ok
             THEN [result |-> Ok(r.val),
                   cache  |-> update_cache(c, cache_key(project_type, template_name),
                                           descriptor, r.val, at),
                   log    |-> lg2]
             ELSE load_from_registries(regs, c, at, project_type, template_name,
                                       fetch, descriptor, i + 1, lg2)

\* the cache check at the head of get_template: Some(path) when it is served
cache_lookup(cfg, c, clock, cache_key_) ==
    IF c[cache_key_].some /\ ~is_cache_expired(cfg, c[cache_key_].v, clock)
    THEN Some(c[cache_key_].v.path)
    ELSE None

\* a get_template that removes the entry it finds expired before it goes to
\* the registries
get_template_fn_evict(cfg, c, clock, at, project_type, template_name, fetch, descriptor) ==
    LET hit == cache_lookup(cfg, c, clock, cache_key(project_type, template_name))
    IN  IF hit.some
        THEN [result |-> Ok(hit.v), cache |-> c, log |-> <<>>]
        ELSE load_from_registries(resolve_order(cfg),
                                  [c EXCEPT ![cache_key(project_type, template_name)] =
                                                [some |-> FALSE]],
                                  at, project_type, template_name, fetch, descriptor, 1, <<>>)

\* TemplateManager::get_template as a function of the manager, of the clock
\* when the cache is checked (clock) and when the entry is built (at), and of
\* what the adapters and the descriptor file answer: result, new cache, attempts
get_template_fn(cfg, c, clock, at, project_type, template_name, fetch, descriptor) ==
    LET hit == cache_lookup(cfg, c, clock, cache_key(project_type, template_name))
    IN  IF hit.some
        THEN [result |-> Ok(hit.v), cache |-> c, log |-> <<>>]
        ELSE load_from_registries(resolve_order(cfg), c, at, project_type,
                                  template_name, fetch, descriptor, 1, <<>>)

(* ------------------------------ listing ------------------------------- *)

\* the templates a source holds, in the order in which it lists them ("app"
\* is held by both sources)
ListingOf(name) ==
    IF name = "local"
    THEN <<Metadata("app", "vue"), Metadata("lib", "react")>>
    ELSE <<Metadata("web", "vue"), Metadata("app", "vue")>>

Listings == { ListingOf(n) : n \in RegistryNames }

\* how a fetch_list ends: the listing of the source, or an error kind
ListOutcomes == {"Ok", "SourceUnavailable"}

\* fetch_list of the adapter bound to the entry (answer: how this invocation
\* of the adapter ends)
fetch_list(answer, registry) ==
    IF answer = "Ok"
    THEN Ok(ListingOf(registry.name))
    ELSE Err(answer, registry.name)

load_local_templates(answer, registry) == fetch_list(answer, registry)

load_git_templates(answer, registry) == fetch_list(answer, registry)

load_http_templates(answer, registry) == fetch_list(answer, registry)

load_npm_templates(answer, registry) == fetch_list(answer, registry)

\* TemplateManager::load_templates_from_registry: dispatch on the source kind
load_templates_from_registry(answer, registry) ==
    CASE registry.source = "Local" -> load_local_templates(answer, registry)
      [] registry.source = "Git"   -> load_git_templates(answer, registry)
      [] registry.source = "Http"  -> load_http_templates(answer, registry)
      [] registry.source = "Npm"   -> load_npm_templates(answer, registry)

RECURSIVE insert_by_key_lt(_, _)
\* an insertion that goes before the entries of equal priority (the sort of
\* an unstable algorithm: ties come out reversed)
insert_by_key_lt(s, r) ==
    IF s = <<>> THEN <<r>>
    ELSE IF Head(s).priority < r.priority
         THEN <<Head(s)>> \o insert_by_key_lt(Tail(s), r)
         ELSE <<r>> \o s

RECURSIVE insert_by_key(_, _)
\* insert r into the sorted s after every entry whose priority is <= r's
insert_by_key(s, r) ==
    IF s = <<>> THEN <<r>>
    ELSE IF Head(s).priority <= r.priority
         THEN <<Head(s)>> \o insert_by_key(Tail(s), r)
         ELSE <<r>> \o s

\* the copy of the registries left in configuration order
sort_by_key_none(s) == s

RECURSIVE sort_by_key(_)
\* Vec::sort_by_key(|r| r.priority): a stable sort
sort_by_key(s) ==
    IF s = <<>> THEN <<>>
    ELSE insert_by_key(sort_by_key(SubSeq(s, 1, Len(s) - 1)), s[Len(s)])

\* Vec::retain(|t| t.project_type == pt), applied when a filter is given
retain(ts, project_type) ==
    IF project_type.some
    THEN SelectSeq(ts, LAMBDA t : t.project_type = project_type.v)
    ELSE ts

\* the listing of one source replacing the result
extend_replace(templates, registry_templates) == registry_templates

\* an extend that drops the records whose name the result already holds
extend_dedup(templates, registry_templates) ==
    templates \o SelectSeq(registry_templates,
                           LAMBDA t : \A i \in DOMAIN templates : templates[i].name # t.name)

\* Vec::extend: the listing of one source appended to the result
extend(templates, registry_templates) == templates \o registry_templates

RECURSIVE list_from_registries(_, _, _, _, _, _)
\* the for loop of list_templates over entries i.. of the sorted copy;
\* listing[k]: how the k-th invocation of an adapter in this call ends
list_from_registries(regs, project_type, listing, i, templates, lg) ==
    IF i > Len(regs)
    THEN [result |-> Ok(templates), log |-> lg]
    ELSE IF ~consulted(regs[i])
    THEN list_from_registries(regs, project_type, listing, i + 1, templates, lg)
    ELSE LET r   == load_templates_from_registry(listing[Len(lg) + 1], regs[i])
             lg2 == Append(lg, Attempt(regs[i], r))
         IN  IF r.ok
             THEN list_from_registries(regs, project_type, listing, i + 1,
                                       extend(templates, retain(r.val, project_type)), lg2)
             ELSE list_from_registries(regs, project_type, listing, i + 1, templates, lg2)

\* TemplateManager::list_templates as a function of the configuration and of
\* what the adapters answer: result and attempts
list_templates_fn(cfg, project_type, listing) ==
    list_from_registries(sort_by_key(cfg.registries), project_type, listing, 1, <<>>, <<>>)

(* ---------------------------- file system ----------------------------- *)

\* the paths the calls name, as their components under a temporary directory
Paths == { <<"t">>, <<"t", "a">>, <<"t", "a", "b">>, <<"t", "c">> }

Root == <<"t">>

\* Path::parent
Parent(p) == SubSeq(p, 1, Len(p) - 1)

\* what is at a path
FileKinds == {"absent", "dir", "file"}

\* the states of the file system: the root is a directory, and what exists
\* lies in a directory
FileSystems ==
    { f \in [Paths -> FileKinds] :
        /\ f[Root] = "dir"
        /\ \A p \in Paths \ {Root} : f[p] # "absent" => f[Parent(p)] = "dir" }

\* a fresh temporary directory
EmptyDir == [p \in Paths |-> IF p = Root THEN "dir" ELSE "absent"]

(* ------------------------------ actions ------------------------------- *)
(* get_template and list_templates are async fns taking &mut self: a call  *)
(* holds the exclusive borrow of the manager from its start to its return, *)
(* across its awaits, and other tasks and the clock go on while it is      *)
(* suspended.  calls[t] is the position of the call of task t, with its    *)
(* result and the adapter invocations it made once it has returned; puts   *)
(* lists the cache.insert's made, in the order they happened.              *)

\* the tasks that call one manager
Tasks == {"t1", "t2"}

\* the tasks that may call list_templates
Listers == {"t2"}

\* the task of a caller that makes one call after the other
Caller == "t1"

\* TemplateManager::new: nothing cached
EmptyCache == [k \in Keys |-> None]

\* TemplateManager::new
Init ==
    /\ config \in TemplateRegistryConfig
    /\ cache = EmptyCache
    /\ now = 0
    /\ ret = [op |-> "new"]
    /\ calls = [t \in Tasks |-> [pc |-> "idle"]]
    /\ puts = <<>>
    /\ fs = EmptyDir

\* the system clock advances
Tick ==
    /\ now < MaxTime
    /\ now' = now + 1
    /\ UNCHANGED <<config, cache, ret, calls, puts, fs>>

\* how the invocations of the adapters of one get_template call end, the
\* k-th invocation at k
FetchInputs == [1..MaxRegistries -> FetchOutcomes]

\* how the invocations of the adapters of one list_templates call end
ListInputs == [1..MaxRegistries -> ListOutcomes]

\* the project_type argument of list_templates
Filters == {None} \cup { Some(t) : t \in ProjectTypes }

\* some call holds the &mut borrow of the manager
Borrowed == \E t \in Tasks : calls[t].pc \in {"loop", "metadata", "listing"}

\* a returned call of get_template
Returned(c, result) ==
    [pc |-> "done", op |-> "get_template", project_type |-> c.project_type,
     template_name |-> c.template_name, start |-> c.start,
     log |-> c.log, descriptor |-> c.descriptor, at |-> now, result |-> result]

\* get_template up to its first await: the cache check
begin_get_template(t, project_type, template_name) ==
    /\ calls[t].pc = "idle"
    /\ ~Borrowed
    /\ LET hit == cache_lookup(config, cache, now, cache_key(project_type, template_name))
           c   == [pc |-> "loop", project_type |-> project_type,
                   template_name |-> template_name, start |-> cache,
                   i |-> 1, log |-> <<>>, descriptor |-> "unread"]
       IN  calls' = [calls EXCEPT ![t] = IF hit.some THEN Returned(c, Ok(hit.v)) ELSE c]
    /\ UNCHANGED <<config, cache, now, ret, puts, fs>>

\* get_template from one iteration of its loop to the next await: the entry
\* is skipped, or its adapter has answered (outcome), or the loop is over
iterate_get_template(t, outcome) ==
    /\ calls[t].pc = "loop"
    /\ LET c    == calls[t]
           regs == resolve_order(config)
       IN  IF c.i > Len(regs)
           THEN calls' = [calls EXCEPT ![t] =
                            Returned(c, not_found(c.project_type, c.template_name))]
           ELSE IF ~consulted(regs[c.i])
           THEN calls' = [calls EXCEPT ![t].i = c.i + 1]
           ELSE LET r   == load_template_from_registry(outcome, regs[c.i],
                                                       c.project_type, c.template_name)
                    lg2 == Append(c.log, Attempt(regs[c.i], r))
                IN  IF r.ok
                    THEN calls' = [calls EXCEPT ![t] =
                                     [c EXCEPT !.pc = "metadata", !.log = lg2] @@ [path |-> r.val]]
                    ELSE calls' = [calls EXCEPT ![t].i = c.i + 1, ![t].log = lg2]
    /\ UNCHANGED <<config, cache, now, ret, puts, fs>>

\* get_template after load_template_metadata has answered: the cache.insert
\* when the descriptor was read, and the return
finish_get_template(t, descriptor) ==
    /\ calls[t].pc = "metadata"
    /\ LET c   == calls[t]
           key == cache_key(c.project_type, c.template_name)
           c2  == update_cache(cache, key, descriptor, c.path, now)
       IN  /\ cache' = c2
           /\ puts' = LET metadata == load_template_metadata(descriptor, c.path)
                      IN  IF metadata.ok
                          THEN Append(puts, [task |-> t, key |-> key,
                                             entry |-> CachedTemplate(metadata.val, c.path, now)])
                          ELSE puts
           /\ calls' = [calls EXCEPT ![t] =
                          Returned([c EXCEPT !.descriptor = descriptor], Ok(c.path))]
    /\ UNCHANGED <<config, now, ret, fs>>

\* a list_templates that sorts the stored list of registries, not a copy
begin_list_templates_in_place(t, project_type) ==
    /\ calls[t].pc = "idle"
    /\ ~Borrowed
    /\ config' = [config EXCEPT !.registries = sort_by_key(config.registries)]
    /\ calls' = [calls EXCEPT ![t] =
                   [pc |-> "listing", project_type |-> project_type,
                    registries |-> sort_by_key(config.registries),
                    i |-> 1, templates |-> <<>>, log |-> <<>>]]
    /\ UNCHANGED <<cache, now, ret, puts, fs>>

\* a list_templates that empties the cache (a listing taken as a refresh)
begin_list_templates_refresh(t, project_type) ==
    /\ calls[t].pc = "idle"
    /\ ~Borrowed
    /\ cache' = EmptyCache
    /\ calls' = [calls EXCEPT ![t] =
                   [pc |-> "listing", project_type |-> project_type,
                    registries |-> sort_by_key(config.registries),
                    i |-> 1, templates |-> <<>>, log |-> <<>>]]
    /\ UNCHANGED <<config, now, ret, puts, fs>>

\* list_templates up to its loop: the sorted copy of the registries
begin_list_templates(t, project_type) ==
    /\ calls[t].pc = "idle"
    /\ ~Borrowed
    /\ calls' = [calls EXCEPT ![t] =
                   [pc |-> "listing", project_type |-> project_type,
                    registries |-> sort_by_key(config.registries),
                    i |-> 1, templates |-> <<>>, log |-> <<>>]]
    /\ UNCHANGED <<config, cache, now, ret, puts, fs>>

\* list_templates from one iteration of its loop to the next await, or to its return
iterate_list_templates(t, outcome) ==
    /\ calls[t].pc = "listing"
    /\ LET c == calls[t]
       IN  IF c.i > Len(c.registries)
           THEN calls' = [calls EXCEPT ![t] =
                            [pc |-> "done", op |-> "list_templates",
                             project_type |-> c.project_type, log |-> c.log,
                             result |-> Ok(c.templates)]]
           ELSE IF ~consulted(c.registries[c.i])
           THEN calls' = [calls EXCEPT ![t].i = c.i + 1]
           ELSE LET r   == load_templates_from_registry(outcome, c.registries[c.i])
                    lg2 == Append(c.log, Attempt(c.registries[c.i], r))
                IN  calls' = [calls EXCEPT
                                ![t].i = c.i + 1,
                                ![t].log = lg2,
                                ![t].templates =
                                    IF r.ok THEN extend(c.templates, retain(r.val, c.project_type))
                                    ELSE c.templates]
    /\ UNCHANGED <<config, cache, now, ret, puts, fs>>

\* the caller of a returned call has taken its result and goes on: its task
\* is free for another call
resume(t) ==
    /\ calls[t].pc = "done"
    /\ calls' = [calls EXCEPT ![t] = [pc |-> "idle"]]
    /\ puts' = <<>>
    /\ UNCHANGED <<config, cache, now, ret, fs>>

TaskResolve(t) ==
    \/ \E r \in Requests : begin_get_template(t, r[1], r[2])
    \/ \E outcome \in FetchOutcomes : iterate_get_template(t, outcome)
    \/ \E descriptor \in DescriptorStates : finish_get_template(t, descriptor)

TaskList(t) ==
    \/ \E pt \in Filters : begin_list_templates(t, pt)
    \/ \E outcome \in ListOutcomes : iterate_list_templates(t, outcome)

\* one caller resolves and lists, one call after the other
Next == TaskResolve(Caller) \/ TaskList(Caller) \/ resume(Caller) \/ Tick

Spec == Init /\ [][Next]_vars

\* the manager under resolve calls alone
NextResolve == TaskResolve(Caller) \/ resume(Caller) \/ Tick

SpecResolve == Init /\ [][NextResolve]_vars

\* the manager under list_templates calls alone
NextList == TaskList(Caller) \/ resume(Caller)

SpecList == Init /\ [][NextList]_vars

\* the system clock is set back
SetBack ==
    /\ now > 0
    /\ now' \in 0..(now - 1)
    /\ UNCHANGED <<config, cache, ret, calls, puts, fs>>

\* the manager under resolve calls, with a clock that can be set back
NextClock == TaskResolve(Caller) \/ resume(Caller) \/ Tick \/ SetBack

SpecClock == Init /\ [][NextClock]_vars

\* TemplateManager::new(TemplateRegistryConfig::default()): a manager made
\* from the default configuration, while no call is under way
new_default ==
    /\ \A t \in Tasks : calls[t].pc = "idle"
    /\ config' = default
    /\ cache' = EmptyCache
    /\ UNCHANGED <<now, ret, calls, puts, fs>>

\* managers of any configuration and of the default one, under resolve calls
NextDefault == new_default \/ TaskResolve(Caller) \/ resume(Caller) \/ Tick

SpecDefault == Init /\ [][NextDefault]_vars

(* ---------------------- calls of several tasks ------------------------ *)

\* a step of some call: every task may resolve, the tasks of Listers may list
NextCalls == (\E t \in Tasks : TaskResolve(t)) \/ (\E t \in Listers : TaskList(t))

NextTasks == NextCalls \/ Tick

SpecTasks == Init /\ [][NextTasks]_vars

\* the calls of tasks that resolve requests containing the separator
TaskResolveColon(t) ==
    \/ \E r \in ColonRequests : begin_get_template(t, r[1], r[2])
    \/ \E outcome \in FetchOutcomes : iterate_get_template(t, outcome)
    \/ \E descriptor \in DescriptorStates : finish_get_template(t, descriptor)

NextKeys == (\E t \in Tasks : TaskResolveColon(t)) \/ Tick

SpecKeys == Init /\ [][NextKeys]_vars

(* ------------- free functions (templates.rs, utils.rs) ---------------- *)
(* Texts are sequences of characters.                                      *)

\* the state before any call of the free functions: whatever the file
\* system holds; no manager is involved (its fields keep their values)
InitLib ==
    /\ config = default
    /\ cache = EmptyCache
    /\ now = 0
    /\ ret = [op |-> "new"]
    /\ calls = [t \in Tasks |-> [pc |-> "idle"]]
    /\ puts = <<>>
    /\ fs \in FileSystems

\* texts are made of at most MaxPieces pieces
MaxPieces == 2

\* the names of the variables
VarKeys == { <<"a">>, <<"b">> }

\* format!("{{{{{}}}}}", key): the key between double braces
placeholder(key) == <<"{", "{">> \o key \o <<"}", "}">>

\* the pieces of the template texts: placeholders, a letter, a lone brace
Pieces == { placeholder(k) : k \in VarKeys } \cup { <<"x">>, <<"{">> }

RECURSIVE JoinPieces(_)
JoinPieces(ps) == IF ps = <<>> THEN <<>> ELSE Head(ps) \o JoinPieces(Tail(ps))

\* the template texts
Texts == { JoinPieces(ps) : ps \in UNION { [1..n -> Pieces] : n \in 0..MaxPieces } }

\* the values of the variables: a letter, or the placeholder of a variable
VarValues == { <<"x">> } \cup { placeholder(k) : k \in VarKeys }

\* HashMap<String, String>
VariableMaps == UNION { [ks -> VarValues] : ks \in SUBSET VarKeys }

\* the orders in which iterating a HashMap can yield its keys (the order is
\* unspecified: any of them)
IterationOrders(variables) ==
    { o \in [1..Cardinality(DOMAIN variables) -> DOMAIN variables] :
        \A i, j \in 1..Cardinality(DOMAIN variables) : o[i] = o[j] => i = j }

RECURSIVE replace(_, _, _)
\* str::replace: every non-overlapping match of from, left to right, becomes to
replace(text, from, to) ==
    IF Len(text) < Len(from) THEN text
    ELSE IF SubSeq(text, 1, Len(from)) = from
         THEN to \o replace(SubSeq(text, Len(from) + 1, Len(text)), from, to)
         ELSE <<Head(text)>> \o replace(Tail(text), from, to)

RECURSIVE replace_each(_, _, _, _)
\* the loop `for (key, value) in variables`, from the i-th key of the order
replace_each(result, variables, order, i) ==
    IF i > Len(order) THEN result
    ELSE replace_each(replace(result, placeholder(order[i]), variables[order[i]]),
                      variables, order, i + 1)

\* templates::render_template, the map iterated in the given order
render_template_fn(template_content, variables, order) ==
    Ok(replace_each(template_content, variables, order, 1))

\* utils::replace_variables_in_file: the content written back to the file,
\* the map iterated in the given order
replace_variables_in_file_fn(content, variables, order) ==
    replace_each(content, variables, order, 1)

\* a call of render_template(template_content, variables)
render_template(template_content, variables, order) ==
    /\ ret' = [op |-> "render_template", template_content |-> template_content,
               variables |-> variables,
               result |-> render_template_fn(template_content, variables, order)]
    /\ UNCHANGED <<config, cache, now, calls, puts, fs>>

Render ==
    \E template_content \in Texts, variables \in VariableMaps :
        \E order \in IterationOrders(variables) :
            render_template(template_content, variables, order)

NextRender == Render

SpecRender == InitLib /\ [][NextRender]_vars

(* built-in template tables (templates.rs, cli.rs); the Chinese words of  *)
(* the descriptions are left out of the strings                            *)

\* the project types asked for: the three built in, and one that is not
BuiltinTypes == {"java", "vue", "react", "go"}

\* the template names asked for: those built in, and one that is not
TemplateNames == {"basic", "spring-boot", "typescript", "nextjs", "maven"}

\* a table in which java lists maven for spring-boot
list_templates_by_type_maven(project_type) ==
    CASE project_type = "java"  -> Ok(<<"basic", "maven">>)
      [] project_type = "vue"   -> Ok(<<"basic", "typescript">>)
      [] project_type = "react" -> Ok(<<"basic", "nextjs">>)
      [] OTHER -> Err("TemplateNotFound", "Unsupported project type: " \o project_type)

\* templates::list_templates_by_type
list_templates_by_type_fn(project_type) ==
    CASE project_type = "java"  -> Ok(<<"basic", "spring-boot">>)
      [] project_type = "vue"   -> Ok(<<"basic", "typescript">>)
      [] project_type = "react" -> Ok(<<"basic", "nextjs">>)
      [] OTHER -> Err("TemplateNotFound", "Unsupported project type: " \o project_type)

\* templates::get_template_info
get_template_info_fn(project_type, template) ==
    LET info ==
          CASE project_type = "vue"   /\ template = "basic"       -> Some("Vue 3 + Vite")
            [] project_type = "vue"   /\ template = "typescript"  -> Some("Vue 3 + Vite + TypeScript")
            [] project_type = "react" /\ template = "basic"       -> Some("React + Vite")
            [] project_type = "react" /\ template = "nextjs"      -> Some("Next.js")
            [] project_type = "java"  /\ template = "basic"       -> Some("Java Maven")
            [] project_type = "java"  /\ template = "spring-boot" -> Some("Spring Boot")
            [] OTHER -> None
    IN  IF info.some
        THEN Ok(template \o " - " \o info.v)
        ELSE Err("TemplateNotFound",
                 "Template not found: " \o project_type \o ":" \o template)

\* GenCli::select_template
select_template_fn(project_type) ==
    CASE project_type = "vue"   -> Ok("basic")
      [] project_type = "react" -> Ok("basic")
      [] project_type = "java"  -> Ok("spring-boot")
      [] OTHER -> Ok("basic")

\* a call of list_templates_by_type(project_type)
list_templates_by_type(project_type) ==
    /\ ret' = [op |-> "list_templates_by_type", project_type |-> project_type,
               result |-> list_templates_by_type_fn(project_type)]
    /\ UNCHANGED <<config, cache, now, calls, puts, fs>>

\* a call of get_template_info(project_type, template)
get_template_info(project_type, template) ==
    /\ ret' = [op |-> "get_template_info", project_type |-> project_type,
               template |-> template,
               result |-> get_template_info_fn(project_type, template)]
    /\ UNCHANGED <<config, cache, now, calls, puts, fs>>

\* a call of select_template(project_type)
select_template(project_type) ==
    /\ ret' = [op |-> "select_template", project_type |-> project_type,
               result |-> select_template_fn(project_type)]
    /\ UNCHANGED <<config, cache, now, calls, puts, fs>>

(* ensure_dir_exists (utils.rs) on the file system                         *)

\* the system refuses a creation after it allowed io of them, io up to
\* MaxMkdir: one creation for each path below the root, so that with
\* io = MaxMkdir no creation of a call is refused
MaxMkdir == Cardinality(Paths) - 1

\* the directory the root lies in: it exists and is not followed further
Above == Parent(Root)

\* Path::exists
exists(f, p) == IF p = Above THEN TRUE ELSE f[p] # "absent"

\* mkdir(2), as fs::create_dir_all calls it; io: how many more directories
\* or files the system lets the call make
mkdir(f, p, io) ==
    IF f[p] # "absent" THEN [result |-> Err("AlreadyExists", ""), fs |-> f, io |-> io]
    ELSE IF f[Parent(p)] = "absent" THEN [result |-> Err("NotFound", ""), fs |-> f, io |-> io]
    ELSE IF f[Parent(p)] = "file" THEN [result |-> Err("NotADirectory", ""), fs |-> f, io |-> io]
    ELSE IF io = 0 THEN [result |-> Err("PermissionDenied", ""), fs |-> f, io |-> io]
    ELSE [result |-> Ok("()"), fs |-> [f EXCEPT ![p] = "dir"], io |-> io - 1]

RECURSIVE create_dir_all(_, _, _)
\* fs::create_dir_all: the directory and its missing ancestors
create_dir_all(f, p, io) ==
    LET m == mkdir(f, p, io)
    IN  IF m.result.ok THEN m
        ELSE IF m.result.kind = "NotFound"
        THEN LET up == create_dir_all(f, Parent(p), io)
             IN  IF ~up.result.ok THEN up
                 ELSE LET m2 == mkdir(up.fs, p, up.io)
                      IN  IF ~m2.result.ok /\ up.fs[p] = "dir"
                          THEN [result |-> Ok("()"), fs |-> up.fs, io |-> up.io]
                          ELSE m2
        ELSE IF f[p] = "dir"
        THEN [result |-> Ok("()"), fs |-> f, io |-> io]
        ELSE m

\* an ensure_dir_exists that creates without looking whether the path exists
ensure_dir_exists_create(f, path, io) ==
    LET made == create_dir_all(f, path, io)
    IN  [result |-> made.result, fs |-> made.fs, io |-> made.io]

\* utils::ensure_dir_exists as a function of the file system: result, new
\* file system, what the system still lets the caller make
ensure_dir_exists_fn(f, path, io) ==
    IF ~exists(f, path)
    THEN LET made == create_dir_all(f, path, io)
         IN  [result |-> made.result, fs |-> made.fs, io |-> made.io]
    ELSE [result |-> Ok("()"), fs |-> f, io |-> io]

\* a call of ensure_dir_exists(path)
ensure_dir_exists(path, io) ==
    LET out == ensure_dir_exists_fn(fs, path, io)
    IN  /\ fs' = out.fs
        /\ ret' = [op |-> "ensure_dir_exists", path |-> path, before |-> fs,
                   result |-> out.result]
        /\ UNCHANGED <<config, cache, now, calls, puts>>

(* copy_file, copy_dir_recursive (utils.rs): the source is a tree that is  *)
(* read and not written                                                    *)

\* what a source path holds
SrcAbsent == [kind |-> "absent"]

SrcFile == [kind |-> "file"]

\* a directory: its entries, in the order fs::read_dir yields them
SrcDir(entries) == [kind |-> "dir", entries |-> entries]

\* the names under the path p that the file system follows
Children(p) == { q[Len(q)] : q \in { q \in Paths : Len(q) = Len(p) + 1 /\ Parent(q) = p } }

RECURSIVE SourceNodes(_)
\* the files and directories whose copy to p stays inside Paths; read_dir
\* may yield the entries of a directory in any order
SourceNodes(p) ==
    {SrcFile} \cup
    { SrcDir([i \in DOMAIN o |-> [name |-> o[i], node |-> sub[o[i]]]]) :
        o \in UNION { Orderings(S) : S \in SUBSET Children(p) },
        sub \in { g \in [Children(p) -> UNION { SourceNodes(p \o <<n>>) : n \in Children(p) }] :
                    \A n \in Children(p) : g[n] \in SourceNodes(p \o <<n>>) } }

\* the sources copied to dest: nothing there, or a file or directory that fits
Sources(dest) == {SrcAbsent} \cup SourceNodes(dest)

\* fs::copy: the content of the file src written to the file dest, which is
\* created when it is absent
copy(f, src, dest, io) ==
    IF src.kind = "absent" THEN [result |-> Err("NotFound", ""), fs |-> f, io |-> io]
    ELSE IF src.kind = "dir" THEN [result |-> Err("InvalidInput", ""), fs |-> f, io |-> io]
    ELSE IF f[dest] = "dir" THEN [result |-> Err("IsADirectory", ""), fs |-> f, io |-> io]
    ELSE IF f[dest] = "file" THEN [result |-> Ok("()"), fs |-> f, io |-> io]
    ELSE IF f[Parent(dest)] = "absent" THEN [result |-> Err("NotFound", ""), fs |-> f, io |-> io]
    ELSE IF f[Parent(dest)] = "file" THEN [result |-> Err("NotADirectory", ""), fs |-> f, io |-> io]
    ELSE IF io = 0 THEN [result |-> Err("PermissionDenied", ""), fs |-> f, io |-> io]
    ELSE [result |-> Ok("()"), fs |-> [f EXCEPT ![dest] = "file"], io |-> io - 1]

\* utils::copy_file as a function of the file system
copy_file_fn(f, src, dest, io) ==
    LET parent == ensure_dir_exists_fn(f, Parent(dest), io)
    IN  IF ~parent.result.ok THEN parent
        ELSE copy(parent.fs, src, dest, parent.io)

RECURSIVE copy_dir_recursive_fn(_, _, _, _)
RECURSIVE copy_entries(_, _, _, _, _)
\* the loop of copy_dir_recursive over the entries i.. of the directory
copy_entries(f, entries, dest, io, i) ==
    IF i > Len(entries) THEN [result |-> Ok("()"), fs |-> f, io |-> io]
    ELSE LET dest_path == dest \o <<entries[i].name>>
             one == IF entries[i].node.kind = "dir"
                    THEN copy_dir_recursive_fn(f, entries[i].node, dest_path, io)
                    ELSE copy_file_fn(f, entries[i].node, dest_path, io)
         IN  IF ~one.result.ok THEN one
             ELSE copy_entries(one.fs, entries, dest, one.io, i + 1)

\* utils::copy_dir_recursive as a function of the file system
copy_dir_recursive_fn(f, src, dest, io) ==
    LET made == ensure_dir_exists_fn(f, dest, io)
    IN  IF ~made.result.ok THEN made
        ELSE IF src.kind = "absent"
        THEN [result |-> Err("NotFound", ""), fs |-> made.fs, io |-> made.io]
        ELSE IF src.kind = "file"
        THEN [result |-> Err("NotADirectory", ""), fs |-> made.fs, io |-> made.io]
        ELSE copy_entries(made.fs, src.entries, dest, made.io, 1)

\* a call of copy_file(src, dest)
copy_file(src, dest, io) ==
    LET out == copy_file_fn(fs, src, dest, io)
    IN  /\ fs' = out.fs
        /\ ret' = [op |-> "copy_file", path |-> dest, before |-> fs,
                   result |-> out.result]
        /\ UNCHANGED <<config, cache, now, calls, puts>>

\* a call of copy_dir_recursive(src, dest)
copy_dir_recursive(src, dest, io) ==
    LET out == copy_dir_recursive_fn(fs, src, dest, io)
    IN  /\ fs' = out.fs
        /\ ret' = [op |-> "copy_dir_recursive", path |-> dest, before |-> fs,
                   result |-> out.result]
        /\ UNCHANGED <<config, cache, now, calls, puts>>

ListByType == \E pt \in BuiltinTypes : list_templates_by_type(pt)

GetInfo == \E pt \in BuiltinTypes, t \in TemplateNames : get_template_info(pt, t)

SelectTemplate == \E pt \in BuiltinTypes : select_template(pt)

EnsureDir == \E path \in Paths, io \in 0..MaxMkdir : ensure_dir_exists(path, io)

CopyFile ==
    \E dest \in Paths, src \in {SrcAbsent, SrcFile, SrcDir(<<>>)}, io \in 0..MaxMkdir :
        copy_file(src, dest, io)

CopyDir ==
    \E dest \in Paths : \E src \in Sources(dest), io \in 0..MaxMkdir :
        copy_dir_recursive(src, dest, io)

NextLib == ListByType \/ GetInfo \/ SelectTemplate \/ EnsureDir \/ CopyFile \/ CopyDir

SpecLib == InitLib /\ [][NextLib]_vars

(* ------------------------- notions of the claims ---------------------- *)

\* the result, cache and attempts of a resolve that starts in the current
\* state and builds its entry when the clock shows at
ResolvedAt(r, at, fetch, descriptor) ==
    get_template_fn(config, cache, now, at, r[1], r[2], fetch, descriptor)

\* the same, of a resolve during which the clock does not move
Resolved(r, fetch, descriptor) == ResolvedAt(r, now, fetch, descriptor)

\* the result and attempts of a listing made in the current state
Listed(pt, listing) == list_templates_fn(config, pt, listing)

\* the caller can start a call: none of its calls is under way or unresumed
CanCall == calls[Caller].pc = "idle"

\* the returned call of the caller: its operation, arguments and result
Ret == IF calls[Caller].pc = "done" THEN calls[Caller] ELSE [op |-> "none"]

\* the adapter invocations of the returned call of the caller
Log == IF calls[Caller].pc = "done" THEN calls[Caller].log ELSE <<>>

\* the composite key of a request, written out
KeyOf(r) == r[1] \o ":" \o r[2]

Entries == { config.registries[i] : i \in DOMAIN config.registries }

EnabledEntries == { e \in Entries : e.enabled }

\* the enabled entries, in the order of the configuration
EnabledSeq == SelectSeq(config.registries, LAMBDA e : e.enabled)

\* the positions of the enabled entries in the configuration
EnabledPositions == { i \in DOMAIN config.registries : config.registries[i].enabled }

\* the entries of the attempts of a log, in the order of the attempts
TriedSeq(lg) == [i \in DOMAIN lg |-> lg[i].entry]

\* the TTL in ticks
TtlTicks == config.cache_ttl * TicksPerSec

\* the entry of key k is within its TTL: time elapsed since cached_at <= ttl
WithinTtl(k) ==
    /\ cache[k].some
    /\ now >= cache[k].v.cached_at
    /\ now - cache[k].v.cached_at <= TtlTicks

(* ------------------------------- claims ------------------------------- *)

\* C1: on a cache miss resolve tries the enabled entries in ascending priority
\* order, whatever their order in the configuration, and returns the first
\* success in that order (every enabled entry of lower priority number than the
\* winner was tried, and failed, before it).
C1_PriorityOrder ==
    (Ret.op = "get_template" /\ Log # <<>>) =>
        /\ \A i, j \in DOMAIN Log :
              i < j => Log[i].entry.priority <= Log[j].entry.priority
        /\ Ret.result.ok =>
              \A e \in EnabledEntries :
                  e.priority < Log[Len(Log)].entry.priority
                      => \E i \in DOMAIN Log : Log[i].entry = e

\* C2: when a resolve succeeds, a second resolve of the same pair made within
\* the TTL window (counted from cached_at of the entry of the pair, from the
\* first call when it left none) returns the identical path and invokes no
\* adapter.
C2_CacheIdempotence ==
    [][ ( /\ calls[Caller].pc # "done"
          /\ calls'[Caller].pc = "done"
          /\ calls'[Caller].op = "get_template"
          /\ calls'[Caller].result.ok ) =>
          LET first == calls'[Caller]
              k     == first.project_type \o ":" \o first.template_name
              start == IF cache'[k].some THEN cache'[k].v.cached_at ELSE now'
          IN  \A t \in now'..MaxTime :
                 t - start <= config'.cache_ttl * TicksPerSec =>
                    \A fetch \in FetchInputs, d \in DescriptorStates :
                        LET second == get_template_fn(config', cache', t, t, first.project_type,
                                                      first.template_name, fetch, d)
                        IN  second.result = first.result /\ second.log = <<>> ]_vars

\* C3: whenever the cache holds an unexpired entry for the key of a request,
\* resolve returns that entry's path and invokes no adapter, whatever the
\* registry entries are or would answer.
C3_FreshEntryServed ==
    CanCall =>
    \A r \in Requests, fetch \in FetchInputs, d \in DescriptorStates :
        WithinTtl(KeyOf(r)) =>
            LET out == Resolved(r, fetch, d)
            IN  /\ out.result = Ok(cache[KeyOf(r)].v.path)
                /\ out.log = <<>>

C3_Witness ==
    /\ Ret.op = "get_template"
    /\ Ret.result.ok
    /\ WithinTtl(KeyOf(<<Ret.project_type, Ret.template_name>>))
    /\ Ret.result.val = cache[KeyOf(<<Ret.project_type, Ret.template_name>>)].v.path
    /\ Log = <<>>

\* C4: an entry is expired exactly when the time elapsed since cached_at is
\* greater than the TTL; once the clock is past cached_at + ttl by any amount,
\* the next resolve of the key does not serve the entry and invokes adapters.
C4_ExpiredPastTtl ==
    [][ \A r \in Requests :
          ( /\ begin_get_template(Caller, r[1], r[2])
            /\ cache[KeyOf(r)].some
            /\ now >= cache[KeyOf(r)].v.cached_at )
          => /\ is_cache_expired(config, cache[KeyOf(r)].v, now)
                  <=> (now - cache[KeyOf(r)].v.cached_at > TtlTicks)
             /\ now - cache[KeyOf(r)].v.cached_at > TtlTicks
                  => calls'[Caller].pc = "loop" ]_vars

\* C5: only a SourceUnavailable failure makes resolve try the next entry; a
\* failure of any other kind ends the iteration and is the result of the call.
C5_OnlyUnavailableSkipped ==
    Ret.op = "get_template" =>
        \A i \in DOMAIN Log :
            (~Log[i].outcome.ok /\ Log[i].outcome.kind # "SourceUnavailable")
                => /\ i = Len(Log)
                   /\ Ret.result = Log[i].outcome

\* C6: when the directory a source produced has no template.json or a
\* malformed one, resolve fails with a processing/deserialization error.
C6_BadDescriptorFails ==
    [][ \A d \in DescriptorStates :
          (finish_get_template(Caller, d) /\ d # "valid")
          => /\ ~calls'[Caller].result.ok
             /\ calls'[Caller].result.kind \in {"TemplateProcessing", "Serialization"} ]_vars

\* C7: when the cache holds no unexpired entry for the requested key (no
\* entry, or more time than the TTL has elapsed since cached_at) and every
\* enabled entry fails (or none is enabled), resolve returns TemplateNotFound
\* carrying "{project_type}:{template_name}", having tried each enabled entry
\* exactly once.
C7_AllFailNotFound ==
    CanCall =>
    \A r \in Requests, fetch \in FetchInputs, d \in DescriptorStates :
        (~WithinTtl(KeyOf(r)) /\ \A k \in DOMAIN EnabledSeq : fetch[k] # "Ok") =>
            LET out == Resolved(r, fetch, d)
            IN  /\ out.result = [ok |-> FALSE, kind |-> "TemplateNotFound", ctx |-> KeyOf(r)]
                /\ Len(out.log) = Cardinality(EnabledPositions)
                /\ \E o \in [DOMAIN out.log -> EnabledPositions] :
                      /\ \A i, j \in DOMAIN out.log : o[i] = o[j] => i = j
                      /\ \A i \in DOMAIN out.log : out.log[i].entry = config.registries[o[i]]

\* the configuration with its disabled entries removed
WithoutDisabled(cfg) ==
    [cfg EXCEPT !.registries = SelectSeq(cfg.registries, LAMBDA e : e.enabled)]

\* C8: resolve and list_templates invoke no adapter of a disabled entry, and
\* their outcome is the one the configuration without its disabled entries gives.
C8_DisabledNeverConsulted ==
    CanCall =>
    /\ \A r \in Requests, fetch \in FetchInputs, d \in DescriptorStates :
          LET out == Resolved(r, fetch, d)
          IN  /\ \A i \in DOMAIN out.log : out.log[i].entry.enabled
              /\ out = get_template_fn(WithoutDisabled(config), cache, now, now,
                                       r[1], r[2], fetch, d)
    /\ \A pt \in Filters, listing \in ListInputs :
          LET out == Listed(pt, listing)
          IN  /\ \A i \in DOMAIN out.log : out.log[i].entry.enabled
              /\ out = list_templates_fn(WithoutDisabled(config), pt, listing)

C8_Witness ==
    /\ Len(config.registries) = 2
    /\ ~config.registries[1].enabled
    /\ config.registries[2].enabled
    /\ Ret.op = "get_template"
    /\ ~Ret.result.ok
    /\ Len(Log) = 1
    /\ Log[1].registry = config.registries[2].name

\* C9: when some enabled Local entry can supply the template (its fetch
\* succeeds, and its descriptor is valid if its directory is the one read),
\* resolve succeeds, whatever the other entries answer.
C9_LocalSupplies ==
    CanCall =>
    \A r \in Requests, fetch \in FetchInputs, d \in DescriptorStates :
        LET out == Resolved(r, fetch, d)
        IN  (\E k \in DOMAIN EnabledSeq :
                /\ EnabledSeq[k].source = "Local"
                /\ fetch[k] = "Ok"
                /\ Len(out.log) = k => d = "valid")
            => out.result.ok

C9_Witness ==
    /\ Ret.op = "get_template"
    /\ Ret.result.ok
    /\ Len(Log) = 2
    /\ Log[1].outcome = [ok |-> FALSE, kind |-> "IntegrityError", ctx |-> Log[1].registry]
    /\ Log[2].entry.source = "Local"
    /\ cache[KeyOf(<<Ret.project_type, Ret.template_name>>)].some

\* occurrences of m in the sequence s
Count(m, s) == Cardinality({ i \in DOMAIN s : s[i] = m })

\* the Log holds one attempt for each enabled entry of the configuration
OncePerEnabled(lg) ==
    /\ Len(lg) = Cardinality(EnabledPositions)
    /\ \E o \in [DOMAIN lg -> EnabledPositions] :
          /\ \A i, j \in DOMAIN lg : o[i] = o[j] => i = j
          /\ \A i \in DOMAIN lg : lg[i].entry = config.registries[o[i]]

\* what an attempt contributes to a listing: the records its source listed,
\* in the source's order, of the requested type; nothing when it failed
FilteredListing(a, pt) ==
    IF a.outcome.ok
    THEN SelectSeq(a.outcome.val, LAMBDA t : pt.some => t.project_type = pt.v)
    ELSE <<>>

RECURSIVE CountListed(_, _, _, _)
\* occurrences of m in the filtered listings of the attempts i.. of lg
CountListed(m, pt, lg, i) ==
    IF i > Len(lg) THEN 0
    ELSE Count(m, FilteredListing(lg[i], pt)) + CountListed(m, pt, lg, i + 1)

\* C10: list_templates succeeds whatever sources fail, and its result holds
\* the records of every enabled entry whose listing succeeded (those of the
\* requested type when a filter is given) and nothing else.
C10_ListNeverAborts ==
    CanCall =>
    \A pt \in Filters, listing \in ListInputs :
        LET out == Listed(pt, listing)
        IN  /\ out.result.ok
            /\ OncePerEnabled(out.log)
            /\ \A i \in DOMAIN out.log :
                  out.log[i].outcome.ok => out.log[i].outcome.val = ListingOf(out.log[i].registry)
            /\ \A l \in Listings : \A k \in DOMAIN l :
                  Count(l[k], out.result.val) = CountListed(l[k], pt, out.log, 1)
            /\ \A k \in DOMAIN out.result.val :
                  \E l \in Listings : \E j \in DOMAIN l : l[j] = out.result.val[k]

C10_Witness ==
    /\ Ret.op = "list_templates"
    /\ Ret.result.ok
    /\ Len(Log) = 2
    /\ ~Log[1].outcome.ok
    /\ Log[2].outcome.ok
    /\ Ret.result.val = Log[2].outcome.val
    /\ Ret.result.val # <<>>

RECURSIVE Concat(_)
\* the concatenation of a sequence of sequences
Concat(ss) == IF ss = <<>> THEN <<>> ELSE Head(ss) \o Concat(Tail(ss))

\* what the entry at position p contributes when its listing ends as answer
Contribution(p, pt, answer) ==
    FilteredListing(Attempt(config.registries[p],
                            load_templates_from_registry(answer, config.registries[p])), pt)

\* C11: list_templates returns exactly the concatenation, over the enabled
\* entries taken in ascending priority order, of each successful source's
\* listing in the source's own order, restricted to the records of the
\* requested type when a filter is given.
C11_ListConcatenation ==
    CanCall =>
    \A pt \in Filters, listing \in ListInputs :
        \E o \in Orderings(EnabledPositions) :
            /\ \A i, j \in DOMAIN o :
                  i < j => config.registries[o[i]].priority <= config.registries[o[j]].priority
            /\ Listed(pt, listing).result
                 = Ok(Concat([i \in DOMAIN o |-> Contribution(o[i], pt, listing[i])]))

C11_Witness ==
    /\ Ret.op = "list_templates"
    /\ Ret.project_type = Some("vue")
    /\ Len(config.registries) = 2
    /\ config.registries[1].priority > config.registries[2].priority
    /\ Len(Log) = 2
    /\ Log[1].registry = config.registries[2].name
    /\ Log[1].registry = "remote"
    /\ Ret.result = Ok(<<Metadata("web", "vue"), Metadata("app", "vue"), Metadata("app", "vue")>>)

RECURSIVE SumLen(_, _, _)
\* the lengths of the filtered listings of the attempts i.. of lg, summed
SumLen(pt, lg, i) ==
    IF i > Len(lg) THEN 0
    ELSE Len(FilteredListing(lg[i], pt)) + SumLen(pt, lg, i + 1)

\* the records of s that carry the name n
Named(n, s) == { i \in DOMAIN s : s[i].name = n }

\* C12: list_templates does not deduplicate: the length of its result is the
\* sum of the lengths of the filtered listings of the enabled sources, and a
\* name listed by two enabled sources appears in two records of the result.
C12_NoDeduplication ==
    CanCall =>
    \A pt \in Filters, listing \in ListInputs :
        LET out == Listed(pt, listing).result.val
            lg  == Listed(pt, listing).log
        IN  /\ OncePerEnabled(lg)
            /\ Len(out) = SumLen(pt, lg, 1)
            /\ \A a1, a2 \in DOMAIN lg :
                  \A k1 \in DOMAIN FilteredListing(lg[a1], pt),
                     k2 \in DOMAIN FilteredListing(lg[a2], pt) :
                      ( /\ a1 # a2
                        /\ FilteredListing(lg[a1], pt)[k1].name
                             = FilteredListing(lg[a2], pt)[k2].name )
                      => Cardinality(Named(FilteredListing(lg[a1], pt)[k1].name, out)) >= 2

C12_Witness ==
    /\ Ret.op = "list_templates"
    /\ Len(Log) = 2
    /\ Log[1].outcome.ok
    /\ Log[2].outcome.ok
    /\ \E i, j \in DOMAIN Ret.result.val :
          /\ i # j
          /\ Ret.result.val[i].name = Ret.result.val[j].name
    /\ Len(Ret.result.val) = Len(Log[1].outcome.val) + Len(Log[2].outcome.val)

(* calls of several tasks *)

\* task t has called get_template
IsResolve(t) ==
    \/ calls[t].pc \in {"loop", "metadata"}
    \/ calls[t].pc = "done" /\ calls[t].op = "get_template"

\* task t has called list_templates
IsList(t) ==
    \/ calls[t].pc = "listing"
    \/ calls[t].pc = "done" /\ calls[t].op = "list_templates"

\* the key of the get_template call of task t
CallKey(t) == cache_key(calls[t].project_type, calls[t].template_name)

\* the cache.insert's made for key k, by their position in puts
PutsOf(k) == { i \in DOMAIN puts : puts[i].key = k }

\* the entry of the last cache.insert for key k, None when there was none
LastPut(k) ==
    IF PutsOf(k) = {} THEN None
    ELSE Some(puts[CHOOSE i \in PutsOf(k) : \A j \in PutsOf(k) : j <= i].entry)

\* entry e is all of what the call of task t inserted: the directory its last
\* attempt produced, the descriptor of that directory, the time of its insert
WrittenBy(e, t) ==
    /\ \E i \in DOMAIN puts : puts[i].task = t /\ puts[i].entry = e
    /\ calls[t].pc = "done"
    /\ calls[t].log # <<>>
    /\ calls[t].log[Len(calls[t].log)].outcome = Ok(e.path)
    /\ e.metadata = MetadataAt(e.path)
    /\ e.cached_at = calls[t].at

\* the call of task t is suspended at an await: of the adapter of the entry
\* its loop is at, or of the read of the descriptor
InFlight(t) ==
    \/ calls[t].pc = "metadata"
    \/ /\ calls[t].pc = "loop"
       /\ calls[t].i <= Len(resolve_order(config))
       /\ consulted(resolve_order(config)[calls[t].i])
    \/ /\ calls[t].pc = "listing"
       /\ calls[t].i <= Len(calls[t].registries)
       /\ consulted(calls[t].registries[calls[t].i])

\* C13: two tasks can resolve the same key simultaneously (while the call of
\* one is suspended at an await for a key, the other, idle, can call
\* get_template for that key), and when two tasks resolve the same key,
\* whatever the interleaving: while a call has not returned some call can take
\* a step (no deadlock), the entry of the key is the one of the last
\* cache.insert for it (absent when there was none), and a stored entry is
\* wholly the one written by exactly one of the two calls.
C13_SameKeyCalls ==
    /\ \A t, u \in Tasks :
          (t # u /\ InFlight(t) /\ IsResolve(t) /\ calls[u].pc = "idle") =>
              ENABLED begin_get_template(u, calls[t].project_type, calls[t].template_name)
    /\ (\A t \in Tasks : IsResolve(t)) /\ (\A t, u \in Tasks : CallKey(t) = CallKey(u)) =>
          LET k == CallKey(CHOOSE t \in Tasks : TRUE)
          IN  /\ (\E t \in Tasks : calls[t].pc # "done") => ENABLED NextCalls
              /\ cache[k] = LastPut(k)
              /\ cache[k].some =>
                    Cardinality({ t \in Tasks : WrittenBy(cache[k].v, t) }) = 1

\* how the invocations of the adapters ended in a Log, the k-th at k; an
\* invocation that was not made is taken to be unavailable
FetchOf(lg) ==
    [k \in 1..MaxRegistries |->
        IF k \in DOMAIN lg
        THEN IF lg[k].outcome.ok THEN "Ok" ELSE lg[k].outcome.kind
        ELSE "SourceUnavailable"]

\* the calls of tasks t and u are for different keys, or one of them lists
DifferentKeys(t, u) ==
    \/ IsResolve(t) /\ IsResolve(u) /\ CallKey(t) # CallKey(u)
    \/ IsResolve(t) /\ IsList(u)
    \/ IsList(t) /\ IsResolve(u)

\* the returned get_template call c ended as the same call made alone (on the
\* cache it started with, at the time it returned, with the same answers) ends
AsAlone(t) ==
    LET c     == calls[t]
        alone == get_template_fn(config, c.start, c.at, c.at, c.project_type, c.template_name,
                                 FetchOf(c.log), c.descriptor)
        mine  == { i \in DOMAIN puts : puts[i].task = t }
    IN  /\ c.result = alone.result
        /\ c.log = alone.log
        /\ IF mine = {}
           THEN alone.cache[CallKey(t)] = c.start[CallKey(t)]
           ELSE \A i \in mine : alone.cache[CallKey(t)] = Some(puts[i].entry)
        /\ \A i \in mine : puts[i].key = CallKey(t)

\* C14: get_template for different keys and list_templates can run in
\* parallel (while the call of one task is suspended at an await, the other,
\* idle, can call get_template for another key, and a lister can call
\* list_templates), and in every interleaving each returned get_template has
\* the result, and has left for its key the entry, that it gives alone, each
\* returned list_templates has the result it gives alone, and the entry of
\* every key is the one of the last cache.insert for that key: no call alters
\* the entry of another key.
C14_DifferentKeyCalls ==
    /\ \A t, u \in Tasks :
          (t # u /\ InFlight(t) /\ calls[u].pc = "idle") =>
              /\ \A r \in Requests :
                    (IsResolve(t) => KeyOf(r) # CallKey(t)) =>
                        ENABLED begin_get_template(u, r[1], r[2])
              /\ (u \in Listers /\ IsResolve(t)) =>
                    \A pt \in Filters : ENABLED begin_list_templates(u, pt)
    /\ \A t, u \in Tasks :
          (t # u /\ DifferentKeys(t, u)) =>
              /\ (calls[t].pc = "done" /\ IsResolve(t)) => AsAlone(t)
              /\ (calls[t].pc = "done" /\ IsList(t)) =>
                    LET alone == list_templates_fn(config, calls[t].project_type,
                                                   FetchOf(calls[t].log))
                    IN  calls[t].result = alone.result /\ calls[t].log = alone.log
              /\ \A k \in Keys : cache[k] = LastPut(k)

\* C15: the default configuration is exactly one registry entry, enabled, of
\* kind Local with path ./templates and priority 0, with the cache directory
\* ./.template_cache and a TTL of 3600 seconds.
C15_DefaultConfiguration ==
    [][ new_default =>
          /\ Len(config'.registries) = 1
          /\ config'.registries[1].enabled
          /\ config'.registries[1].source = "Local"
          /\ config'.registries[1].path = "./templates"
          /\ config'.registries[1].priority = 0
          /\ config'.cache_dir = "./.template_cache"
          /\ config'.cache_ttl = 3600 ]_vars

C15_Witness ==
    /\ config.cache_ttl = 3600
    /\ Len(config.registries) = 1
    /\ config.registries[1].path = "./templates"
    /\ Ret.op = "get_template"
    /\ Ret.result = Ok("./templates/t")
    /\ now = MaxTime

\* C16: resolve is all-or-nothing with respect to the cache: a call that
\* returns an error leaves the cache exactly as it was, and the cache differs
\* after a call only by the entry of the requested key, which then holds the
\* directory of the successful fetch that ended the call (a failed fetch
\* creates or changes nothing).
C16_ErrorLeavesCache ==
    CanCall =>
    \A r \in Requests, fetch \in FetchInputs, d \in DescriptorStates, at \in now..MaxTime :
        LET out == ResolvedAt(r, at, fetch, d)
        IN  /\ ~out.result.ok => out.cache = cache
            /\ out.cache # cache =>
                  /\ out.log # <<>>
                  /\ out.log[Len(out.log)].outcome = out.result
                  /\ out.result.ok
                  /\ out.cache[KeyOf(r)].v.path = out.result.val
                  /\ \A k \in Keys \ {KeyOf(r)} : out.cache[k] = cache[k]

C16_Witness ==
    /\ Ret.op = "get_template"
    /\ ~Ret.result.ok
    /\ \E i \in DOMAIN Log :
          Log[i].outcome = [ok |-> FALSE, kind |-> "IntegrityError", ctx |-> "remote"]
    /\ cache[KeyOf(<<Ret.project_type, Ret.template_name>>)].some
    /\ now - cache[KeyOf(<<Ret.project_type, Ret.template_name>>)].v.cached_at
          > config.cache_ttl * TicksPerSec

\* C17: within one resolve the entries are tried one after the other: the
\* attempts follow the order of iteration, an entry is fetched only after
\* every enabled entry before it was fetched and failed, no entry is fetched
\* twice, and nothing is fetched after a success (only the last attempt of a
\* call can be a success, and it is the result).
C17_SequentialAttempts ==
    CanCall =>
    \A r \in Requests, fetch \in FetchInputs, d \in DescriptorStates :
        LET lg == Resolved(r, fetch, d).log
        IN  /\ Len(lg) <= Len(EnabledSeq)
            /\ TriedSeq(lg) = SubSeq(EnabledSeq, 1, Len(lg))
            /\ \A i, j \in DOMAIN lg : i < j => ~lg[i].outcome.ok
            /\ (lg # <<>> /\ lg[Len(lg)].outcome.ok)
                  => Resolved(r, fetch, d).result = lg[Len(lg)].outcome

C17_Witness ==
    /\ Ret.op = "get_template"
    /\ Len(config.registries) = 2
    /\ \A i \in DOMAIN config.registries : config.registries[i].enabled
    /\ Len(Log) = 1
    /\ Log[1].registry = config.registries[1].name
    /\ Log[1].outcome.ok
    /\ Ret.result = Log[1].outcome

\* C18: when the clock is earlier than cached_at of the entry of the requested
\* key (the elapsed time cannot be computed), resolve treats the entry as
\* expired: it does not serve it and goes to the adapters (it tries an entry
\* when one is enabled, and fails with TemplateNotFound when it tried none).
C18_ClockRegressionExpires ==
    CanCall =>
    \A r \in Requests, fetch \in FetchInputs, d \in DescriptorStates :
        (cache[KeyOf(r)].some /\ now < cache[KeyOf(r)].v.cached_at) =>
            LET out == Resolved(r, fetch, d)
            IN  /\ EnabledEntries # {} => out.log # <<>>
                /\ out.log = <<>> => /\ ~out.result.ok
                                     /\ out.result.kind = "TemplateNotFound"

C18_Witness ==
    /\ Ret.op = "get_template"
    /\ ~Ret.result.ok
    /\ Log # <<>>
    /\ cache[KeyOf(<<Ret.project_type, Ret.template_name>>)].some
    /\ now < cache[KeyOf(<<Ret.project_type, Ret.template_name>>)].v.cached_at

\* C19: every cache entry is whole: its metadata, path and cached_at are those
\* of one cache.insert of one returned call (the directory of that call's
\* successful attempt, the descriptor of that directory, the time of the
\* insert), and a step that changes the entry of a key replaces it by exactly
\* the entry the finishing call builds, keeping no field of the old one.
C19_WholeEntries ==
    /\ [](\A k \in Keys : cache[k].some => \E t \in Tasks : WrittenBy(cache[k].v, t))
    /\ [][ \A k \in Keys :
             cache'[k] # cache[k] =>
                \E t \in Tasks :
                    /\ calls[t].pc = "metadata"
                    /\ calls'[t].pc = "done"
                    /\ cache_key(calls[t].project_type, calls[t].template_name) = k
                    /\ cache'[k] = Some(CachedTemplate(MetadataAt(calls[t].path),
                                                       calls[t].path, now)) ]_vars

C19_Witness ==
    /\ Len(puts) = 2
    /\ puts[1].key = puts[2].key
    /\ puts[1].entry.metadata # puts[2].entry.metadata
    /\ puts[1].entry.cached_at < puts[2].entry.cached_at
    /\ cache[puts[2].key].v.metadata = MetadataAt(cache[puts[2].key].v.path)
    /\ cache[puts[2].key].v.path = puts[2].entry.path
    /\ cache[puts[2].key].v.cached_at = puts[2].entry.cached_at

\* C20: the cache changes only through the insert of a successful resolve:
\* a step that changes it is a get_template that tried an adapter and returned
\* Ok, and it only stores an entry for the requested key; list_templates, a
\* get_template served from the cache or ending in an error, and the passage
\* of time leave every entry, expired ones included, as it is.
C20_OnlyResolvePuts ==
    [][ /\ now' # now => cache' = cache
        /\ cache' # cache =>
              /\ calls[Caller].pc = "metadata"
              /\ calls'[Caller].pc = "done"
              /\ calls'[Caller].op = "get_template"
              /\ calls'[Caller].result.ok
              /\ calls'[Caller].log # <<>>
              /\ calls'[Caller].log[Len(calls'[Caller].log)].outcome = calls'[Caller].result
              /\ \A k \in Keys :
                    IF k = calls[Caller].project_type \o ":" \o calls[Caller].template_name
                    THEN /\ cache'[k].some
                         /\ cache'[k].v.path = calls'[Caller].result.val
                         /\ cache'[k].v.cached_at = now
                    ELSE cache'[k] = cache[k] ]_vars

C20_Witness ==
    /\ Ret.op = "list_templates"
    /\ now = MaxTime
    /\ \E k \in Keys :
          /\ cache[k].some
          /\ cache[k].v.cached_at = 0
          /\ is_cache_expired(config, cache[k].v, now)

\* C21: the registry configuration is read-only after construction: no
\* list_templates or resolve call (and no tick of the clock) changes the
\* entries, their order, their enabled flags or priorities, the cache
\* directory or the TTL.
C21_ConfigReadOnly ==
    [][ /\ Len(config'.registries) = Len(config.registries)
        /\ \A i \in DOMAIN config.registries :
              /\ config'.registries[i].name = config.registries[i].name
              /\ config'.registries[i].source = config.registries[i].source
              /\ config'.registries[i].enabled = config.registries[i].enabled
              /\ config'.registries[i].priority = config.registries[i].priority
        /\ config'.cache_dir = config.cache_dir
        /\ config'.cache_ttl = config.cache_ttl ]_vars

C21_Witness ==
    /\ Ret.op = "list_templates"
    /\ Len(Log) = 2
    /\ Len(config.registries) = 2
    /\ config.registries[1].priority > config.registries[2].priority
    /\ Log[1].registry = config.registries[2].name
    /\ Log[2].registry = config.registries[1].name
    /\ \E k \in Keys : cache[k].some

\* C23: list_templates consults enabled entries of the same priority in the
\* order in which they appear in the configuration (the priority sort is
\* stable), entries of different priorities in priority order: the order of a
\* listing is determined by the configuration.
C23_StableTies ==
    CanCall =>
    \A pt \in Filters, listing \in ListInputs :
        LET lg == Listed(pt, listing).log
        IN  \E o \in Orderings(EnabledPositions) :
              /\ TriedSeq(lg) = [i \in DOMAIN o |-> config.registries[o[i]]]
              /\ \A i, j \in DOMAIN o :
                    i < j =>
                       \/ config.registries[o[i]].priority < config.registries[o[j]].priority
                       \/ /\ config.registries[o[i]].priority = config.registries[o[j]].priority
                          /\ o[i] < o[j]

C23_Witness ==
    /\ Ret.op = "list_templates"
    /\ Len(config.registries) = 2
    /\ config.registries[1].priority = config.registries[2].priority
    /\ config.registries[1].name = "remote"
    /\ Len(Log) = 2
    /\ Log[1].registry = "remote"
    /\ Log[2].registry = "local"
    /\ Log[1].outcome.ok
    /\ Log[2].outcome.ok

\* C22: the cache never confuses two requests: a resolve that is served from
\* the cache returns a path that was cached by a resolve of the same
\* (project_type, template_name) pair, never one cached for a different pair,
\* also when the strings contain ':'.
C22_NoKeyConfusion ==
    \A t \in Tasks :
        (calls[t].pc = "done" /\ calls[t].op = "get_template"
            /\ calls[t].result.ok /\ calls[t].log = <<>>) =>
            \A i \in DOMAIN puts :
                (puts[i].key = CallKey(t) /\ puts[i].entry.path = calls[t].result.val) =>
                    /\ calls[puts[i].task].project_type = calls[t].project_type
                    /\ calls[puts[i].task].template_name = calls[t].template_name

\* C24: render_template and replace_variables_in_file do not depend on the
\* order in which the variables map is iterated: every order of the keys gives
\* the output the call gave, also when a value contains the placeholder of
\* another variable.
C24_RenderOrderIndependent ==
    ret.op = "render_template" =>
        \A order \in IterationOrders(ret.variables) :
            /\ render_template_fn(ret.template_content, ret.variables, order) = ret.result
            /\ replace_variables_in_file_fn(ret.template_content, ret.variables, order)
                 = ret.result.val

\* the templates a successful list_templates_by_type lists
ListedNames(pt) ==
    IF list_templates_by_type_fn(pt).ok
    THEN { list_templates_by_type_fn(pt).val[i] : i \in DOMAIN list_templates_by_type_fn(pt).val }
    ELSE {}

\* C25: the built-in tables agree: get_template_info(type, t) succeeds exactly
\* when list_templates_by_type(type) succeeds and lists t, and fails with
\* TemplateNotFound otherwise; the template select_template picks for vue,
\* react and java is one list_templates_by_type lists for that type.
C25_TablesAgree ==
    /\ ret.op = "get_template_info" =>
          /\ ret.result.ok <=> ret.template \in ListedNames(ret.project_type)
          /\ ~ret.result.ok => ret.result.kind = "TemplateNotFound"
    /\ ret.op = "list_templates_by_type" =>
          /\ ret.result.ok =>
                \A i \in DOMAIN ret.result.val :
                    get_template_info_fn(ret.project_type, ret.result.val[i]).ok
          /\ ~ret.result.ok =>
                /\ ret.result.kind = "TemplateNotFound"
                /\ \A t \in TemplateNames : ~get_template_info_fn(ret.project_type, t).ok
    /\ (ret.op = "select_template" /\ ret.project_type \in {"vue", "react", "java"}) =>
          /\ ret.result.ok
          /\ ret.result.val \in ListedNames(ret.project_type)

C25_Witness ==
    /\ ret.op = "select_template"
    /\ ret.project_type = "java"
    /\ ret.result = Ok("spring-boot")
    /\ get_template_info_fn("java", ret.result.val).ok

\* C26: ensure_dir_exists establishes its postcondition and is idempotent:
\* after a successful call the path exists; on a path that exists the call
\* succeeds and leaves the file system as it is; a second call after a
\* successful one succeeds and changes nothing, whatever the system then lets
\* it create.
C26_EnsureDirIdempotent ==
    \A path \in Paths, io \in 0..MaxMkdir :
        LET once == ensure_dir_exists_fn(fs, path, io)
        IN  /\ once.result.ok => exists(once.fs, path)
            /\ exists(fs, path) => (once.result.ok /\ once.fs = fs)
            /\ once.result.ok =>
                  \A io2 \in 0..MaxMkdir :
                      LET twice == ensure_dir_exists_fn(once.fs, path, io2)
                      IN  twice.result.ok /\ twice.fs = once.fs

C26_Witness ==
    /\ ret.op = "ensure_dir_exists"
    /\ ret.result.ok
    /\ ret.path = <<"t", "a", "b">>
    /\ ret.before[<<"t", "a">>] = "absent"
    /\ fs[<<"t", "a">>] = "dir"
    /\ fs[<<"t", "a", "b">>] = "dir"
    /\ fs[<<"t", "c">>] = "file"

====
